---- MODULE Spec2Model ----
(***************************************************************************)
(* Model of the tree rewriting pass of mold (src/tree.go): processTree     *)
(* walks a parsed template tree, swaps render and partial actions for      *)
(* template calls and returns the template names it met.                   *)
(*                                                                         *)
(* The parse tree is a value: a node is a record, a node pointer is the    *)
(* path of the node from the root (0-based steps: the index in a list's    *)
(* Nodes; 0 for List and 1 for ElseList in an if/range/with node).  A      *)
(* parser never shares a node between two parents, so paths and pointers   *)
(* agree.                                                                  *)
(***************************************************************************)
EXTENDS Integers, Sequences, FiniteSets, TLC

VARIABLES
    t,      \* the template: [name, root], root being t.Tree.Root
    raw,    \* the raw source text of t, a sequence of characters
    log     \* one record per finished call of processTree, oldest first

vars == <<t, raw, log>>

(***************************************************************************)
(* Bounds of the model.                                                    *)
(***************************************************************************)
MaxLeaves == 2      \* leaves (actions, template calls) of a parsed tree
MaxPasses == 2      \* calls of processTree on the same template

(***************************************************************************)
(* Nodes of text/template/parse, as far as tree.go reads them.             *)
(***************************************************************************)
renderFunc == "render"
partialFunc == "partial"

Identifier(n) == [typ |-> "Identifier", val |-> n]
String(s) == [typ |-> "String", val |-> s]
Field(f) == [typ |-> "Field", val |-> f]
Dot == [typ |-> "Dot", val |-> "."]

\* A command is its Args; a pipeline is its Cmds.
ActionNode(p, l, cmds) == [kind |-> "Action", pos |-> p, line |-> l, cmds |-> cmds]
TemplateNode(p, l, n, cmds) ==
    [kind |-> "Template", pos |-> p, line |-> l, name |-> n, cmds |-> cmds]
ListNode(ns) == [kind |-> "List", nodes |-> ns]
NilList == [kind |-> "Nil"]     \* a nil *ListNode (an absent else branch)
BranchNode(k, l, e) == [kind |-> k, list |-> l, else |-> e]
BranchKinds == {"If", "Range", "With"}

\* A pointer to a list node, or nil.
NilParent == [nil |-> TRUE, path |-> <<>>]
Ptr(p) == [nil |-> FALSE, path |-> p]

Child(node, k) ==
    IF node.kind = "List" THEN node.nodes[k + 1]
    ELSE IF k = 0 THEN node.list ELSE node.else

NumChildren(node) ==
    IF node.kind = "List" THEN Len(node.nodes)
    ELSE IF node.kind \in BranchKinds THEN 2 ELSE 0

RECURSIVE At(_, _)
At(root, path) ==
    IF path = <<>> THEN root ELSE At(Child(root, Head(path)), Tail(path))

RECURSIVE Put(_, _, _)
Put(root, path, new) ==
    IF path = <<>> THEN new
    ELSE IF root.kind = "List"
         THEN [root EXCEPT !.nodes[Head(path) + 1] = Put(@, Tail(path), new)]
         ELSE IF Head(path) = 0
              THEN [root EXCEPT !.list = Put(@, Tail(path), new)]
              ELSE [root EXCEPT !.else = Put(@, Tail(path), new)]

(***************************************************************************)
(* Errors.                                                                 *)
(***************************************************************************)
NoErr == [kind |-> "nil", pos |-> 0, message |-> ""]
posErr(p, m) == [kind |-> "posErr", pos |-> p, message |-> m]
plainErr(m) == [kind |-> "error", pos |-> 0, message |-> m]

NilParentMsg == "processActionNode error: parent node is nil"
NoPathMsg == "partial: path to partial file is not specified"

(***************************************************************************)
(* getActionArgs                                                           *)
(***************************************************************************)
NoField == [typ |-> "nil", val |-> ""]

getActionArgs(cmd) ==
    [fn    |-> IF Len(cmd) > 0 /\ cmd[1].typ = "Identifier" THEN cmd[1].val ELSE "",
     file  |-> IF Len(cmd) > 1 /\ cmd[2].typ = "String" THEN cmd[2].val ELSE "",
     field |-> IF Len(cmd) > 2 /\ cmd[3].typ = "Field" THEN cmd[3] ELSE NoField]

(***************************************************************************)
(* processActionNode.  st is the heap: [tree, calls]; calls records every  *)
(* invocation (parent, index, node) for the claims about the traversal.    *)
(***************************************************************************)
CallRecord(st, parent, index, np) ==
    [parent |-> parent, index |-> index, node |-> np,
     isList |-> ~parent.nil /\ At(st.tree, parent.path).kind = "List",
     len |-> IF parent.nil THEN 0 ELSE NumChildren(At(st.tree, parent.path))]

\* case funcName == partialFunc && partial
isPartialCase(funcName, partial) == funcName = partialFunc /\ partial

\* Faulty variant: the render flag is not consulted.
isRenderCaseAnyMode(funcName, render) == funcName = renderFunc

\* case funcName == renderFunc && render
isRenderCase(funcName, render) == funcName = renderFunc /\ render

\* Faulty variant: a field argument is honoured for render too.
dataArgAnyField(partialCase, field) ==
    IF field # NoField THEN field ELSE Dot

\* var arg parse.Node = &parse.DotNode{}; in the partial case, arg = field if any
dataArg(partialCase, field) ==
    IF partialCase /\ field # NoField THEN field ELSE Dot

\* Faulty variant: no default name for a render without one.
templateNameNoDefault(renderCase, name) == name

\* in the render case, name = "body" if name is empty
templateName(renderCase, name) ==
    IF renderCase /\ name = "" THEN "body" ELSE name

\* parent.Nodes[index] = tn
rewriteSlot(tree, parent, index, tn) ==
    Put(tree, Append(parent.path, index), tn)

processActionNode(st, parent, index, np, render, partial) ==
    LET st1 == [st EXCEPT !.calls = Append(@, CallRecord(st, parent, index, np))]
    IN
    IF parent.nil
    THEN [st |-> st1, err |-> plainErr(NilParentMsg)]
    ELSE
      LET actionNode == At(st.tree, np)
          cmd == actionNode.cmds[1]
          a == getActionArgs(cmd)
          partialCase == isPartialCase(a.fn, partial)
          renderCase == ~partialCase /\ isRenderCase(a.fn, render)
          arg == dataArg(partialCase, a.field)
          name == templateName(renderCase, a.file)
          \* cmd.Args = [arg]; Pipe.Cmds = [cmd]; tn carries the action's Pos, Line, Pipe
          tn == TemplateNode(actionNode.pos, actionNode.line, name, << <<arg>> >>)
      IN
      IF partialCase /\ a.file = ""
      THEN [st |-> st1, err |-> posErr(actionNode.pos, NoPathMsg)]
      ELSE IF ~partialCase /\ ~renderCase
      THEN [st |-> st1, err |-> NoErr]
      ELSE [st |-> [st1 EXCEPT !.tree = rewriteSlot(@, parent, index, tn)],
            err |-> NoErr]

(***************************************************************************)
(* processNode                                                             *)
(***************************************************************************)
\* Faulty variant: ts = t instead of ts = append(ts, t...).
appendResultOverwrite(acc, r) ==
    LET err == IF r.err # NoErr THEN r.err ELSE acc.err
    IN [st |-> r.st,
        ts |-> IF err = NoErr THEN r.ts ELSE acc.ts,
        err |-> err]

\* The closure appendResult over the named results (ts, err).
appendResult(acc, r) ==
    LET err == IF r.err # NoErr THEN r.err ELSE acc.err
    IN [st |-> r.st,
        ts |-> IF err = NoErr THEN acc.ts \o r.ts ELSE acc.ts,
        err |-> err]

\* Faulty variant: the walk goes on after an error.
quitNever(parentErr) == FALSE

\* if parentErr != nil { return ts, parentErr }
quitEarly(parentErr) == parentErr # NoErr

\* Faulty variant: the children of a list inherit the list's own parent and index.
listChildInherit(parent, index, lp, i) == [parent |-> parent, index |-> index]

\* The (parent, index) handed to the i-th child of the list at path lp.
listChild(parent, index, lp, i) == [parent |-> Ptr(lp), index |-> i]

\* The (parent, index) handed to the bodies of an if/range/with node.
bodyParent(parent, index, np) == [parent |-> parent, index |-> index]

RECURSIVE processNode(_, _, _, _, _, _, _)
RECURSIVE rangeNodes(_, _, _, _, _, _, _)

\* for i, n := range l.Nodes { appendResult(processNode(l, i, n, err, ...)) }
rangeNodes(acc, parent, index, lp, i, render, partial) ==
    IF i >= NumChildren(At(acc.st.tree, lp)) THEN acc
    ELSE LET c == listChild(parent, index, lp, i)
             r == processNode(acc.st, c.parent, c.index, Append(lp, i),
                              acc.err, render, partial)
         IN rangeNodes(appendResult(acc, r), parent, index, lp, i + 1,
                       render, partial)

processNode(st, parent, index, np, parentErr, render, partial) ==
    IF quitEarly(parentErr)
    THEN [st |-> st, ts |-> <<>>, err |-> parentErr]
    ELSE
      LET node == At(st.tree, np)
          acc0 == [st |-> st, ts |-> <<>>, err |-> NoErr]
      IN
      IF node.kind = "Action"
      THEN
        IF Len(node.cmds) > 0
        THEN
          LET a == getActionArgs(node.cmds[1])
              r == IF a.fn = renderFunc \/ a.fn = partialFunc
                   THEN processActionNode(st, parent, index, np, render, partial)
                   ELSE [st |-> st, err |-> NoErr]
          IN IF r.err # NoErr
             THEN [st |-> r.st, ts |-> <<>>, err |-> r.err]
             ELSE [st |-> r.st,
                   ts |-> IF a.file # "" THEN <<a.file>> ELSE <<>>,
                   err |-> NoErr]
        ELSE acc0
      ELSE IF node.kind \in BranchKinds
      THEN
        LET b == bodyParent(parent, index, np)
            r1 == processNode(st, b.parent, b.index, Append(np, 0),
                              acc0.err, render, partial)
            acc1 == appendResult(acc0, r1)
            r2 == processNode(acc1.st, b.parent, b.index, Append(np, 1),
                              acc1.err, render, partial)
        IN appendResult(acc1, r2)
      ELSE IF node.kind = "List"
      THEN rangeNodes(acc0, parent, index, np, 0, render, partial)
      ELSE acc0

(***************************************************************************)
(* pos: byte offset to 1-based line and column.  The loop ranges over the  *)
(* runes of body, i being the byte index at which each rune starts.        *)
(***************************************************************************)
NL == "\n"
Wide == "U+00E9"    \* stands for a rune that takes two bytes
Width(c) == IF c = Wide THEN 2 ELSE 1

RECURSIVE scan(_, _, _, _, _, _)
scan(body, p, k, i, line, col) ==
    IF k > Len(body) \/ i >= p THEN [line |-> line, col |-> col]
    ELSE IF body[k] = NL
         THEN scan(body, p, k + 1, i + Width(body[k]), line + 1, 1)
         ELSE scan(body, p, k + 1, i + Width(body[k]), line, col + 1)

\* Faulty variant: the character at the offset is scanned too (i > pos).
posInclusive(body, p) == scan(body, p + 1, 1, 0, 1, 1)

pos(body, p) == scan(body, p, 1, 0, 1, 1)

(***************************************************************************)
(* processTree                                                             *)
(***************************************************************************)
NilError == [nil |-> TRUE, msg |-> ""]
Error(m) == [nil |-> FALSE, msg |-> m]

\* fmt.Errorf("%s:%d:%d: %w", t.Name(), line, col, err)
Errorf(name, line, col, err) ==
    Error(name \o ":" \o ToString(line) \o ":" \o ToString(col) \o ": " \o err.message)

\* Faulty variant: no error of the walk is returned.
treeErrorDropped(name, body, err) == NilError

\* What processTree returns for the error of the walk.
treeError(name, body, err) ==
    IF err # NoErr /\ err.kind = "posErr"
    THEN LET lc == pos(body, err.pos) IN Errorf(name, lc.line, lc.col, err)
    ELSE NilError

processTree(tmpl, body, render, partial) ==
    LET r == processNode([tree |-> tmpl.root, calls |-> <<>>], NilParent, 0, <<>>,
                         NoErr, render, partial)
    IN [root |-> r.st.tree, calls |-> r.st.calls, walkErr |-> r.err,
        ts |-> r.ts, err |-> treeError(tmpl.name, body, r.err)]

(***************************************************************************)
(* The parsed templates the pass is run on.                                *)
(***************************************************************************)
CmdsOf ==
    [R0 |-> << <<Identifier("render")>> >>,
     R1 |-> << <<Identifier("render"), String("foot"), Field("Foo")>> >>,
     P1 |-> << <<Identifier("partial"), String("a.html")>> >>,
     P2 |-> << <<Identifier("partial"), String("b.html"), Field("Foo")>>,
               <<Identifier("printf")>> >>,
     P0 |-> << <<Identifier("partial")>> >>,
     PE |-> << <<Identifier("partial"), String(""), Field("Foo")>> >>,
     X1 |-> << <<Identifier("printf"), String("x")>> >>]

\* The text in front of each leaf in the source.
LeadOf ==
    [R0 |-> <<>>, R1 |-> <<NL>>, P1 |-> <<"a">>, P2 |-> <<Wide>>,
     P0 |-> <<NL, "a">>, PE |-> <<"a", Wide>>, X1 |-> <<NL, Wide>>, T1 |-> <<"a", "a">>]

LeafKinds == DOMAIN LeadOf

SrcOf(k) == Append(LeadOf[k], "{")

RECURSIVE Bytes(_)
Bytes(s) == IF s = <<>> THEN 0 ELSE Width(Head(s)) + Bytes(Tail(s))

RECURSIVE Concat(_)
Concat(ss) == IF ss = <<>> THEN <<>> ELSE Head(ss) \o Concat(Tail(ss))

RawOf(ks) == Concat([i \in 1..Len(ks) |-> SrcOf(ks[i])])

Newlines(s) == Cardinality({i \in 1..Len(s) : s[i] = NL})

\* The i-th leaf of the source ks, at the byte offset and line of its token.
LeafAt(ks, i) ==
    LET before == RawOf(SubSeq(ks, 1, i - 1)) \o LeadOf[ks[i]]
        p == Bytes(before)
        l == 1 + Newlines(before)
    IN IF ks[i] = "T1"
       THEN TemplateNode(p, l, "t.html", << <<Dot>> >>)
       ELSE ActionNode(p, l, CmdsOf[ks[i]])

LeavesOf(ks) == [i \in 1..Len(ks) |-> LeafAt(ks, i)]

Take(s, n) == SubSeq(s, 1, IF n < Len(s) THEN n ELSE Len(s))
Drop(s, n) == SubSeq(s, n + 1, Len(s))

Shapes == {"flat", "cond", "loop", "scope", "sibling"}

\* The tree of shape sh whose leaves are s, in document order.
Arrange(sh, s) ==
    CASE sh = "flat" -> ListNode(s)
      [] sh = "cond" ->
           ListNode(<<BranchNode("If", ListNode(Take(s, 1)),
                                 ListNode(Take(Drop(s, 1), 1)))>> \o Drop(s, 2))
      [] sh = "loop" ->
           ListNode(Take(s, 1) \o <<BranchNode("Range", ListNode(Drop(s, 1)), NilList)>>)
      [] sh = "scope" ->
           ListNode(<<BranchNode("With",
                         ListNode(<<BranchNode("If", ListNode(Take(s, 1)), NilList)>>),
                         ListNode(Take(Drop(s, 1), 1)))>> \o Drop(s, 2))
      [] sh = "sibling" ->
           ListNode(<<BranchNode("Range", ListNode(Take(s, 1)), NilList),
                      BranchNode("If", ListNode(Take(Drop(s, 1), 1)),
                                 ListNode(Drop(s, 2)))>>)

KindSeqs == UNION {[1..n -> LeafKinds] : n \in 0..MaxLeaves}

\* The sources of the example of the specification's section 8: a root
\* sequence of three actions.
ExampleSeqs == [1..3 -> LeafKinds]

Parsed(sh, ks) == [root |-> Arrange(sh, LeavesOf(ks)), raw |-> RawOf(ks)]

Templates ==
    {Parsed(sh, ks) : sh \in Shapes, ks \in KindSeqs}
        \cup {Parsed("flat", ks) : ks \in ExampleSeqs}

\* A walk entered at a node that is no root sequence: a lone leaf.
Detached == {[root |-> LeafAt(ks, 1), raw |-> RawOf(ks)] : ks \in [1..1 -> LeafKinds]}

TemplateNames == {"index.html"}

(***************************************************************************)
(* The state machine: a parsed template, on which processTree is called.   *)
(***************************************************************************)
InitFrom(inputs) ==
    \E in \in inputs, n \in TemplateNames :
        /\ t = [name |-> n, root |-> in.root]
        /\ raw = in.raw
        /\ log = <<>>

Init == InitFrom(Templates)

Pass(render, partial) ==
    /\ Len(log) < MaxPasses
    /\ \E r \in {processTree(t, raw, render, partial)} :
          /\ t' = [t EXCEPT !.root = r.root]
          /\ log' = Append(log, [render |-> render, partial |-> partial,
                                 before |-> t.root, after |-> r.root,
                                 calls |-> r.calls, walkErr |-> r.walkErr,
                                 ts |-> r.ts, err |-> r.err])
    /\ UNCHANGED raw

Next == \E render \in BOOLEAN, partial \in BOOLEAN : Pass(render, partial)

Spec == Init /\ [][Next]_vars

\* The same calls, the walk entered at any node, a lone action included.
InitDetached == InitFrom(Templates \cup Detached)

SpecDetached == InitDetached /\ [][Next]_vars

(***************************************************************************)
(* Vocabulary of the claims, stated on the trees before and after a call.  *)
(***************************************************************************)
\* The call that has just returned.  Every record of log is the latest one in
\* the state its call leads to, so a property of the latest call in every
\* reachable state is a property of every call.
Entries == IF log = <<>> THEN {} ELSE {log[Len(log)]}
\* The latest call together with the call before it.
Pairs == IF Len(log) < 2 THEN {} ELSE {Len(log) - 1}

Succeeded(e) == e.err.nil

\* The paths of the leaves (actions, template calls) below p, in document
\* order: children by index, a then-body before its else-body.
RECURSIVE LeafPathsFrom(_, _)
LeafPathsFrom(root, p) ==
    LET n == At(root, p)
    IN IF n.kind \in {"Action", "Template"} THEN <<p>>
       ELSE Concat([k \in 1..NumChildren(n) |-> LeafPathsFrom(root, Append(p, k - 1))])

LeafPaths(root) == LeafPathsFrom(root, <<>>)

\* The paths of all nodes below p, p included.
RECURSIVE NodePathsFrom(_, _)
NodePathsFrom(root, p) ==
    {p} \cup UNION {NodePathsFrom(root, Append(p, k - 1)) :
                        k \in 1..NumChildren(At(root, p))}

NodePaths(root) == NodePathsFrom(root, <<>>)

IsAction(n) == n.kind = "Action"
HasArg(n, i, typ) ==
    IsAction(n) /\ Len(n.cmds) > 0 /\ Len(n.cmds[1]) >= i /\ n.cmds[1][i].typ = typ
Arg(n, i) == n.cmds[1][i]
FuncOf(n) == IF HasArg(n, 1, "Identifier") THEN Arg(n, 1).val ELSE ""
HasLiteral(n) == HasArg(n, 2, "String")
HasName(n) == HasLiteral(n) /\ Arg(n, 2).val # ""
HasField(n) == HasArg(n, 3, "Field")

IsRender(n) == IsAction(n) /\ FuncOf(n) = "render"
IsPartial(n) == IsAction(n) /\ FuncOf(n) = "partial"
\* An action the pass is to rewrite under the flags of call e.
Directive(n, e) == (IsRender(n) /\ e.render) \/ (IsPartial(n) /\ e.partial)
\* A partial action that cannot be rewritten under the flags of call e.
Nameless(n, e) == IsPartial(n) /\ e.partial /\ ~HasName(n)

Indices(s) == 1..Len(s)

RECURSIVE Filter(_, _)
Filter(s, keep) ==
    IF s = <<>> THEN <<>>
    ELSE IF keep[1] THEN <<Head(s)>> \o Filter(Tail(s), Tail(keep))
         ELSE Filter(Tail(s), Tail(keep))

\* s is u with some elements left out.
RECURSIVE IsSubSeq(_, _)
IsSubSeq(s, u) ==
    IF s = <<>> THEN TRUE
    ELSE IF u = <<>> THEN FALSE
    ELSE IF Head(s) = Head(u) THEN IsSubSeq(Tail(s), Tail(u))
         ELSE IsSubSeq(s, Tail(u))

\* The non-empty literal names of the actions at the paths ps, in their order.
NamesOf(root, ps) ==
    LET named == Filter(ps, [j \in Indices(ps) |-> HasName(At(root, ps[j]))])
    IN [i \in Indices(named) |-> Arg(At(root, named[i]), 2).val]

\* The indices, in the document order ps, of the failing partials of call e.
Failing(e, ps) == {i \in Indices(ps) : Nameless(At(e.before, ps[i]), e)}
Min(S) == CHOOSE x \in S : \A y \in S : x <= y

\* Byte offset at which the k-th character of body starts.
StartOf(body, k) == Bytes(SubSeq(body, 1, k - 1))
\* The characters that start before byte offset off.
Scanned(body, off) == {k \in Indices(body) : StartOf(body, k) < off}
LineAt(body, off) ==
    1 + Cardinality({k \in Scanned(body, off) : body[k] = NL})
ColAt(body, off) ==
    1 + Cardinality({k \in Scanned(body, off) :
            /\ body[k] # NL
            /\ \A j \in Scanned(body, off) : j > k => body[j] # NL})

PositionedMsg(name, body, off) ==
    name \o ":" \o ToString(LineAt(body, off)) \o ":" \o ToString(ColAt(body, off))
         \o ": " \o "partial: path to partial file is not specified"

(***************************************************************************)
(* C1.  After a successful pass, every slot that held a render action      *)
(* (render mode on) or a partial action with a non-empty literal name      *)
(* (partial mode on) holds a template call: named by the literal name, or  *)
(* "body" for a render without one; at the position of the action; its     *)
(* pipeline one command with one argument, the field for a partial that    *)
(* has one and dot otherwise, also for a render given a field.             *)
(***************************************************************************)
C1_Expected(b) ==
    TemplateNode(b.pos, b.line,
                 IF HasName(b) THEN Arg(b, 2).val ELSE "body",
                 << <<IF IsPartial(b) /\ HasField(b) THEN Arg(b, 3) ELSE Dot>> >>)

C1_Rewritten ==
    \A e \in Entries : Succeeded(e) =>
        \A p \in NodePaths(e.before) :
            LET b == At(e.before, p)
            IN (Directive(b, e) /\ (IsPartial(b) => HasName(b)))
                   => At(e.after, p) = C1_Expected(b)

\* A render with a name and a field, and a partial with a field and a second
\* command, both rewritten by one successful call.
C1_Witness ==
    \E e \in Entries : Succeeded(e) /\
        \E p, q \in NodePaths(e.before) :
            /\ IsRender(At(e.before, p)) /\ HasField(At(e.before, p))
            /\ At(e.after, p).kind = "Template" /\ At(e.after, p).cmds = << <<Dot>> >>
            /\ IsPartial(At(e.before, q)) /\ HasField(At(e.before, q))
            /\ Len(At(e.before, q).cmds) > 1
            /\ At(e.after, q).kind = "Template"

(***************************************************************************)
(* C2.  With partial mode on, a tree holding a partial action whose name   *)
(* is empty or absent makes processTree return the error                   *)
(* "<name>:<line>:<col>: partial: path to partial file is not specified",  *)
(* line and column counted over the characters of the raw source in front  *)
(* of the (first such) action's byte offset; the slot of a failing action  *)
(* still holds the action.                                                 *)
(***************************************************************************)
C2_PositionedError ==
    \A e \in Entries :
        LET ps == LeafPaths(e.before)
            F == Failing(e, ps)
        IN F # {} =>
            /\ e.err = Error(PositionedMsg(t.name, raw, At(e.before, ps[Min(F)]).pos))
            /\ \A i \in F : At(e.after, ps[i]) = At(e.before, ps[i])

\* A failing partial on a later line, behind a two-byte character.
C2_Witness ==
    \E e \in Entries :
        LET ps == LeafPaths(e.before)
            F == Failing(e, ps)
        IN /\ F # {}
           /\ ~e.err.nil
           /\ LineAt(raw, At(e.before, ps[Min(F)]).pos) > 1
           /\ ColAt(raw, At(e.before, ps[Min(F)]).pos) > 1
           /\ \E k \in Scanned(raw, At(e.before, ps[Min(F)]).pos) : raw[k] = Wide

(***************************************************************************)
(* C3.  On a successful pass the Reference List is, in document order and  *)
(* with duplicates, the string literals at argument 1 of the first command *)
(* of the actions of the tree, whatever their function and the flags.      *)
(* As claimed: every string literal.  As amended: every non-empty one.     *)
(***************************************************************************)
Literals(root, nonEmpty) ==
    LET ps == LeafPaths(root)
        ns == [i \in Indices(ps) |-> At(root, ps[i])]
        lit == Filter(ns, [j \in Indices(ns) |->
                   IF nonEmpty THEN HasName(ns[j]) ELSE HasLiteral(ns[j])])
    IN [i \in Indices(lit) |-> Arg(lit[i], 2).val]

C3_AsClaimed ==
    \A e \in Entries : Succeeded(e) => e.ts = Literals(e.before, FALSE)

C3_References ==
    \A e \in Entries : Succeeded(e) => e.ts = Literals(e.before, TRUE)

\* Two names from nested bodies and a rewritten action, in document order.
C3_Witness ==
    \E e \in Entries :
        /\ Succeeded(e)
        /\ Len(e.ts) >= 2 /\ e.ts[1] # e.ts[2]
        /\ e.after # e.before
        /\ \E p \in NodePaths(e.before) : Len(p) >= 3 /\ HasName(At(e.before, p))

(***************************************************************************)
(* C4.  A pass keeps the length of every sequence and every node but the   *)
(* slots holding a render action (render mode on) or a partial action      *)
(* (partial mode on).  With render mode off every render action stays,     *)
(* while a successful pass still rewrites the partial actions, and vice    *)
(* versa.                                                                  *)
(***************************************************************************)
C4_Frame ==
    \A e \in Entries :
        /\ NodePaths(e.after) = NodePaths(e.before)
        /\ \A p \in NodePaths(e.before) :
            LET b == At(e.before, p)
                a == At(e.after, p)
            IN /\ IF b.kind \in {"Action", "Template"}
                  THEN a # b => Directive(b, e)
                  ELSE a.kind = b.kind /\ NumChildren(a) = NumChildren(b)
               /\ (Succeeded(e) /\ e.partial /\ IsPartial(b)) => a.kind = "Template"
               /\ (Succeeded(e) /\ e.render /\ IsRender(b)) => a.kind = "Template"

\* Render mode off, partial mode on: a render action stays, a partial is rewritten.
C4_Witness ==
    \E e \in Entries :
        /\ ~e.render /\ e.partial /\ Succeeded(e)
        /\ \E p, q \in NodePaths(e.before) :
            /\ IsRender(At(e.before, p)) /\ At(e.after, p) = At(e.before, p)
            /\ IsPartial(At(e.before, q)) /\ At(e.after, q).kind = "Template"

(***************************************************************************)
(* C5.  The root sequence  partial "a.html" / render / render "foot" .Foo  *)
(* with both modes on.  As claimed: two rewritten nodes and the Reference  *)
(* List ["a.html"].  As amended: all three actions are rewritten, to       *)
(* "a.html", "body" and "foot" on the full context, and the Reference List *)
(* is ["a.html", "foot"].                                                  *)
(***************************************************************************)
IsExample(root) ==
    /\ root.kind = "List" /\ Len(root.nodes) = 3
    /\ \A i \in 1..3 : IsAction(root.nodes[i])
    /\ root.nodes[1].cmds = << <<Identifier("partial"), String("a.html")>> >>
    /\ root.nodes[2].cmds = << <<Identifier("render")>> >>
    /\ root.nodes[3].cmds = << <<Identifier("render"), String("foot"), Field("Foo")>> >>

ExampleRun(e) == IsExample(e.before) /\ e.render /\ e.partial

Rewrites(e) ==
    {i \in Indices(e.after.nodes) : e.after.nodes[i].kind = "Template"}

C5_AsClaimed ==
    \A e \in Entries : ExampleRun(e) =>
        /\ Cardinality(Rewrites(e)) = 2
        /\ e.ts = <<"a.html">>

C5_Example ==
    \A e \in Entries : ExampleRun(e) =>
        /\ Succeeded(e)
        /\ Rewrites(e) = {1, 2, 3}
        /\ [i \in 1..3 |-> e.after.nodes[i].name] = <<"a.html", "body", "foot">>
        /\ \A i \in 1..3 : e.after.nodes[i].cmds = << <<Dot>> >>
        /\ e.ts = <<"a.html", "foot">>

C5_Witness == \E e \in Entries : ExampleRun(e) /\ e.after # e.before

(***************************************************************************)
(* C6.  The name of a template call already present in the parsed tree is  *)
(* appended to the Reference List at its place in document order.          *)
(***************************************************************************)
References(root) ==
    LET ps == LeafPaths(root)
        ns == [i \in Indices(ps) |-> At(root, ps[i])]
        named == Filter(ns, [j \in Indices(ns) |->
                                 ns[j].kind = "Template" \/ HasName(ns[j])])
    IN [i \in Indices(named) |->
            IF named[i].kind = "Template" THEN named[i].name ELSE Arg(named[i], 2).val]

C6_LiteralCalls ==
    \A e \in Entries : Succeeded(e) => e.ts = References(e.before)

(***************************************************************************)
(* C7.  A second pass, under any flags, over a tree that a successful pass *)
(* with both modes on has rewritten: no error, no node changed, no         *)
(* template call handed to the rewriter, and no entry of the Reference     *)
(* List for a node the first pass converted.                               *)
(***************************************************************************)
Converted(e, p) == At(e.after, p) # At(e.before, p)

C7_SecondPass ==
    \A i \in Pairs :
        LET first == log[i]
            second == log[i + 1]
            ps == LeafPaths(second.before)
            kept == Filter(ps, [j \in Indices(ps) |->
                                   ~Converted(first, ps[j])])
        IN (first.render /\ first.partial /\ Succeeded(first)) =>
            /\ Succeeded(second) /\ second.walkErr = NoErr
            /\ second.after = second.before
            /\ \A j \in Indices(second.calls) :
                   At(second.before, second.calls[j].node).kind # "Template"
            /\ \A j \in Indices(second.calls) :
                   ~Converted(first, second.calls[j].node)
            /\ IsSubSeq(second.ts, NamesOf(second.before, kept))

\* The first pass converted a render and a partial; the second one ran.
C7_Witness ==
    \E i \in Pairs :
        /\ log[i].render /\ log[i].partial /\ Succeeded(log[i])
        /\ \E p, q \in NodePaths(log[i].before) :
            /\ IsRender(At(log[i].before, p)) /\ Converted(log[i], p)
            /\ IsPartial(At(log[i].before, q)) /\ Converted(log[i], q)
        /\ log[i + 1].render

C9_CutPoint ==
    \A e \in Entries :
        LET ps == LeafPaths(e.before)
            F == Failing(e, ps)
            cut == Min(F)
            front == NamesOf(e.before, SubSeq(ps, 1, cut - 1))
        IN F # {} =>
            /\ e.walkErr = posErr(At(e.before, ps[cut]).pos, NoPathMsg)
            /\ ~e.err.nil
            /\ \A i \in 1..(cut - 1) :
                   Directive(At(e.before, ps[i]), e) => At(e.after, ps[i]).kind = "Template"
            /\ \A i \in cut..Len(ps) : At(e.after, ps[i]) = At(e.before, ps[i])
            /\ IsSubSeq(e.ts, front)

\* A failing partial between a rewritten directive and one left alone.
C9_Witness ==
    \E e \in Entries :
        LET ps == LeafPaths(e.before)
            F == Failing(e, ps)
        IN /\ F # {}
           /\ \E i \in 1..(Min(F) - 1) : At(e.after, ps[i]) # At(e.before, ps[i])
           /\ \E i \in (Min(F) + 1)..Len(ps) :
                  Directive(At(e.before, ps[i]), e) /\ ~Nameless(At(e.before, ps[i]), e)
           /\ Len(e.ts) > 0

(***************************************************************************)
(* C10.  In a traversal started at a root sequence, every invocation of    *)
(* the rewriter has a parent that is a sequence node, an index within it,  *)
(* and the action as the parent's child at that index, also inside the     *)
(* bodies of if, range and with; the walk never ends with the error of a   *)
(* missing parent, and only the slots handed to the rewriter change.       *)
(***************************************************************************)
C10_RewriteTarget ==
    \A e \in Entries :
        /\ \A j \in Indices(e.calls) :
            LET c == e.calls[j]
            IN /\ ~c.parent.nil
               /\ c.isList
               /\ 0 <= c.index /\ c.index < c.len
               /\ Append(c.parent.path, c.index) = c.node
        /\ e.walkErr.kind # "error"
        /\ \A p \in NodePaths(e.before) :
               (At(e.before, p).kind = "Action" /\ At(e.after, p) # At(e.before, p))
                   => \E j \in Indices(e.calls) : e.calls[j].node = p

\* The rewriter ran on an action in the else-body of a nested node.
C10_Witness ==
    \E e \in Entries : \E j \in Indices(e.calls) :
        /\ Len(e.calls[j].node) >= 3
        /\ e.calls[j].node[2] = 1
        /\ At(e.after, e.calls[j].node).kind = "Template"

====
